---- MODULE Spec2Model ----
(***************************************************************************)
(* A model of the quiz builder page (src/pages/index.tsx): the QuizBuilder *)
(* component's state, the StudentQuestionCard gesture handlers, the        *)
(* question form's buttons and the delete confirmation modal.              *)
(*                                                                         *)
(* Execution model.  Every handler runs to completion with the values its  *)
(* closure captured at the last render of its component instance; React    *)
(* batches the state updates of one handler and renders once afterwards.   *)
(* StudentQuestionCard (line 352) and QuestionForm (line 161) are declared *)
(* inside the body of QuizBuilder, so every render of QuizBuilder creates  *)
(* a new component type and React replaces every card instance by a fresh  *)
(* one: the card-local state (isDragging, dragDirection, the motion values *)
(* x and y) starts again from its initial values whenever a QuizBuilder    *)
(* state value changes.  A gesture that is in flight on a replaced         *)
(* instance keeps the handlers, and so the closure, of that instance: the  *)
(* gesture library (framer-motion, not part of the repository) either goes *)
(* on calling them or stops; the model allows both.                        *)
(*                                                                         *)
(* Indices are 0-based as in the source; a list is a TLA+ sequence, so the *)
(* question at index i is At(qs, i) = qs[i + 1].                           *)
(*                                                                         *)
(* Spec is the page driven by one pointer; SpecTouch is the list of a      *)
(* saved quiz under the gestures of two fingers; SpecStray is Spec with a  *)
(* host that also delivers movement samples no press-start announced;      *)
(* SpecReorder and SpecDelete apply reorderQuestions and deleteQuestion on *)
(* their own to every small list and every argument; SpecSave is the page  *)
(* without gestures and with the two timeouts of the auto-save effect,     *)
(* which stay pending in the other specifications.                         *)
(***************************************************************************)
EXTENDS Integers, Sequences, FiniteSets, TLC

\* ------------------------------------------------------------------ bounds
MaxQuestions == 2
MaxClock == 2
\* the lists reorderQuestions is applied to on its own: their length and ids
MaxLen == 3
MaxId == 3

\* ------------------------------------------------------- program constants
NULL == -1
UNDEFINED == -2
LockDelta == 10
threshold == 80
velocityThreshold == 300
cardHeight == 140
ConstraintX == 150
ConstraintY == 200
ElasticDivisor == 10

\* ------------------------------------------------------------- input sets
\* a movement sample <<dx, dy, ox, oy>>: info.delta = (dx, dy) is the movement
\* since the previous sample, info.offset = (ox, oy) the movement since the press
Samples == {<<10, 10, 10, 10>>, <<20, 0, 20, 0>>, <<-20, 0, -200, 0>>,
            <<0, 20, 0, 20>>, <<20, 20, 20, 20>>, <<15, 10, 15, 10>>,
            <<10, 0, 140, 0>>, <<10, 0, 200, 0>>,
            <<0, 10, 0, 69>>, <<0, 10, 0, 70>>, <<0, -10, 0, -140>>, <<0, 10, 0, 300>>}
\* a release <<offsetX, velocityX>>: info.offset.x and info.velocity.x
Releases == {<<0, 0>>, <<80, 50>>, <<81, 0>>, <<70, 0>>, <<200, 0>>, <<0, 300>>, <<0, 301>>,
             <<-40, 0>>, <<-20, -500>>, <<-80, 0>>, <<-81, 0>>, <<0, -300>>,
             <<100, -500>>, <<-100, 500>>}

\* the pointers that can hold a gesture: one, and two for a second finger
Pointers == {1}
TouchPointers == {1, 2}
CardIdx == 0..(MaxQuestions - 1)
\* the arguments reorderQuestions is applied to on its own, one below and one
\* above the indices of the longest list included
ReorderIdx == -1..MaxLen
Directions == {"null", "horizontal", "vertical"}

VARIABLES
    questions,              \* quiz.questions: the sequence of question ids
    now,                    \* Date.now()
    currentQuestionIndex,
    showQuestionForm,
    saveStatus,
    showDeleteConfirm,      \* a question id or NULL
    showQuestionTypes,
    draggedIndex,           \* an index or NULL
    dragOverIndex,          \* an index or NULL
    isDragging,             \* per rendered card (by index): useState(false)
    dragDirection,          \* per rendered card: useState(null)
    x,                      \* per rendered card: useMotionValue(0)
    y,                      \* per rendered card: useMotionValue(0)
    sessions,               \* per pointer: the gesture in flight and its closure
    localStorage,           \* the item "quiz-builder-data"
    timers,                 \* the timeouts of the auto-save effect that are pending
    ev                      \* the handler that ran last, its inputs and its calls

vars == <<questions, now, currentQuestionIndex, showQuestionForm, saveStatus,
          showDeleteConfirm, showQuestionTypes, draggedIndex, dragOverIndex,
          isDragging, dragDirection, x, y, sessions, localStorage, timers, ev>>

\* ---------------------------------------------------------------- helpers
Abs(n) == IF n < 0 THEN -n ELSE n
Min(a, b) == IF a < b THEN a ELSE b
Max(a, b) == IF a > b THEN a ELSE b
At(qs, i) == qs[i + 1]
Range(qs) == {qs[k] : k \in 1..Len(qs)}

\* Array.prototype.splice's normalisation of its start argument
NormStart(len, s) == IF s < 0 THEN Max(len + s, 0) ELSE Min(s, len)

\* [movedQuestion] = updatedQuestions.splice(fromIndex, 1)
SpliceOut(qs, from) ==
    LET s == NormStart(Len(qs), from)
    IN  IF s < Len(qs)
        THEN [moved |-> qs[s + 1],
              rest |-> SubSeq(qs, 1, s) \o SubSeq(qs, s + 2, Len(qs))]
        ELSE [moved |-> UNDEFINED, rest |-> qs]

\* updatedQuestions.splice(toIndex, 0, movedQuestion)
SpliceIn(qs, to, item) ==
    LET s == NormStart(Len(qs), to)
    IN  SubSeq(qs, 1, s) \o <<item>> \o SubSeq(qs, s + 1, Len(qs))

\* a mutant of reorderQuestions: the two questions change places
reorderBySwap(qs, fromIndex, toIndex) ==
    IF fromIndex \in 0..(Len(qs) - 1) /\ toIndex \in 0..(Len(qs) - 1)
    THEN [k \in 1..Len(qs) |->
              IF k = fromIndex + 1 THEN qs[toIndex + 1]
              ELSE IF k = toIndex + 1 THEN qs[fromIndex + 1]
              ELSE qs[k]]
    ELSE qs

\* the list reorderQuestions(fromIndex, toIndex) hands to updateQuiz
reorderQuestions(qs, fromIndex, toIndex) ==
    LET r == SpliceOut(qs, fromIndex)
    IN  SpliceIn(r.rest, toIndex, r.moved)

\* a mutant of deleteQuestion: only the first question with the id is removed
deleteFirstMatch(qs, questionId) ==
    IF \E k \in 1..Len(qs) : qs[k] = questionId
    THEN LET k == CHOOSE j \in 1..Len(qs) :
                      qs[j] = questionId /\ \A l \in 1..(j - 1) : qs[l] # questionId
         IN  SubSeq(qs, 1, k - 1) \o SubSeq(qs, k + 1, Len(qs))
    ELSE qs

\* the list deleteQuestion(questionId) hands to updateQuiz
deleteQuestion(qs, questionId) == SelectSeq(qs, LAMBDA q : q # questionId)

\* Math.round(index + currentY / cardHeight) = floor(index + currentY/140 + 1/2)
RoundIndex(index, currentY) == index + ((2 * currentY + cardHeight) \div (2 * cardHeight))

\* Math.max(0, Math.min(quiz.questions.length - 1, newIndex))
ClampIndex(len, newIndex) == Max(0, Min(len - 1, newIndex))

\* dragConstraints with dragElastic = 0.1: inside the constraint the value is
\* the pointer offset, outside it moves by a tenth of the overshoot
Constrain(v, lo, hi) ==
    IF v < lo THEN lo - ((lo - v) \div ElasticDivisor)
    ELSE IF v > hi THEN hi + ((v - hi) \div ElasticDivisor)
    ELSE v

\* a mutant of LockDirection: a sample past the threshold with no dominant
\* axis locks to vertical
LockDirectionTieVertical(dx, dy) ==
    LET deltaX == Abs(dx)
        deltaY == Abs(dy)
    IN  IF deltaX > LockDelta \/ deltaY > LockDelta
        THEN IF 2 * deltaX > 3 * deltaY THEN "horizontal" ELSE "vertical"
        ELSE "null"

\* the direction handleDrag locks to for a sample, "null" when it locks to none
LockDirection(dx, dy) ==
    LET deltaX == Abs(dx)
        deltaY == Abs(dy)
    IN  IF deltaX > LockDelta \/ deltaY > LockDelta
        THEN IF 2 * deltaX > 3 * deltaY THEN "horizontal"
             ELSE IF 2 * deltaY > 3 * deltaX THEN "vertical"
             ELSE "null"
        ELSE "null"

\* mutants of the two conditions below: the commit offset of the specification
\* (60) in place of the code's, and a left swipe that forgets the threshold
SwipeRightAt60(deltaX, velocityX) == deltaX > 60 \/ velocityX > velocityThreshold
SwipeLeftAt60(deltaX, velocityX) == deltaX < -60 \/ velocityX < -velocityThreshold
SwipeLeftNoThreshold(deltaX, velocityX) == deltaX < 0 \/ velocityX < -velocityThreshold

\* a mutant of HorizontalLock: every gesture that is not vertical swipes
NotVerticalLock(dir) == dir # "vertical"

\* the condition of handleDragEnd's swipe branch (line 402)
HorizontalLock(dir) == dir = "horizontal"

\* a mutant of ElseIf: the second condition is tested in an if of its own
SeparateIf(first, second) == second

\* the condition under which the branch of an else if runs (line 411)
ElseIf(first, second) == ~first /\ second

\* the edit branch and the delete branch of handleDragEnd (lines 407, 411)
SwipeRight(deltaX, velocityX) == deltaX > threshold \/ velocityX > velocityThreshold
SwipeLeft(deltaX, velocityX) == deltaX < -threshold \/ velocityX < -velocityThreshold

\* -------------------------------------------------------------- auto-save
\* localStorage.getItem("quiz-builder-data"): null, or the item last written
NoItem == [present |-> FALSE, questions |-> <<>>]
Item(qs) == [present |-> TRUE, questions |-> qs]

\* JSON.stringify of the list, as JSON.parse gives it back: an undefined entry
\* of an array is written as null
Stringify(qs) == [k \in 1..Len(qs) |-> IF qs[k] = UNDEFINED THEN NULL ELSE qs[k]]

\* the timeouts of the effect of lines 76-86.  save is the 1000 ms timeout of
\* the effect's last run with the saveStatus and the quiz that run closed over;
\* saved counts the 500 ms timeouts of line 81, which no cleanup clears.
\* The effect runs again, clearing its 1000 ms timeout and setting a new one,
\* after every render in which quiz or saveStatus changed.
Scheduled(status, qs) ==
    [save |-> [pending |-> TRUE, status |-> status, questions |-> qs],
     saved |-> timers.saved]

\* a handler that changes neither quiz nor saveStatus
SaveIdle == UNCHANGED <<localStorage, timers>>
\* a handler that called updateQuiz: the quiz is a new object and the effect
\* runs again
SaveRearmed ==
    /\ localStorage' = localStorage
    /\ timers' = Scheduled(saveStatus', questions')

\* ------------------------------------------------------------------ state
NoCalls == <<>>
Call(fn, a, b) == [fn |-> fn, a |-> a, b |-> b]

Event(op, index, id, dir, over, mounted, offsetX, velocityX, calls) ==
    [op |-> op, index |-> index, id |-> id, dir |-> dir, over |-> over,
     mounted |-> mounted, offsetX |-> offsetX, velocityX |-> velocityX,
     calls |-> calls,
     \* the cards whose isDragging was true when the handler began
     active |-> {j \in CardIdx : isDragging[j]}]
\* a handler of QuizBuilder itself, which has no card and no gesture input
PageEvent(op, id, calls) == Event(op, NULL, id, "null", NULL, FALSE, 0, 0, calls)

Idle == [open |-> FALSE, mounted |-> FALSE, index |-> NULL, id |-> NULL,
         dir |-> "null", over |-> NULL, qs |-> <<>>]

\* the values the handlers of the card at index i close over at its last render
Closure(i, mounted) ==
    [open |-> TRUE, mounted |-> mounted, index |-> i, id |-> At(questions, i),
     dir |-> dragDirection[i], over |-> dragOverIndex, qs |-> questions]

Detached(s) == IF s.open THEN [s EXCEPT !.mounted = FALSE] ELSE s

FreshBool == [i \in CardIdx |-> FALSE]
FreshDirection == [i \in CardIdx |-> "null"]
FreshMotion == [i \in CardIdx |-> 0]

\* a mutant of Remount: React keeps the card instances, as it would if the
\* card component were declared outside QuizBuilder
RemountKeepsInstances == UNCHANGED <<isDragging, dragDirection, x, y>>

\* a render of QuizBuilder: every card instance is replaced by a new one
Remount ==
    /\ isDragging' = FreshBool
    /\ dragDirection' = FreshDirection
    /\ x' = FreshMotion
    /\ y' = FreshMotion

\* the list of cards is rendered, and with it the card at index i
CardRendered(i) == ~showQuestionForm /\ i < Len(questions)
\* the question form is rendered (line 688)
FormRendered == showQuestionForm /\ currentQuestionIndex < Len(questions)
\* a mutant of ModalOpen: the overlay covers nothing
OverlayMissing == FALSE

\* the modal's overlay (fixed inset-0, line 746) covers the list and the form
ModalOpen == showDeleteConfirm # NULL

Init ==
    /\ questions = <<>>
    /\ now = 1
    /\ currentQuestionIndex = 0
    /\ showQuestionForm = FALSE
    /\ saveStatus = "saved"
    /\ showDeleteConfirm = NULL
    /\ showQuestionTypes = FALSE
    /\ draggedIndex = NULL
    /\ dragOverIndex = NULL
    /\ isDragging = FreshBool
    /\ dragDirection = FreshDirection
    /\ x = FreshMotion
    /\ y = FreshMotion
    /\ sessions = [p \in Pointers |-> Idle]
    /\ localStorage = NoItem
    /\ timers = [save |-> [pending |-> TRUE, status |-> saveStatus, questions |-> questions],
                 saved |-> 0]
    /\ ev = PageEvent("mount", NULL, NoCalls)

\* ----------------------------------------------------- QuizBuilder handlers
\* every handler below changes a state value of QuizBuilder, so the cards are
\* replaced and every gesture in flight is left with its old closure
PageRender ==
    /\ Remount
    /\ sessions' = [p \in DOMAIN sessions |-> Detached(sessions[p])]

Tick ==
    /\ SaveIdle
    /\ now < MaxClock
    /\ now' = now + 1
    /\ ev' = PageEvent("tick", NULL, NoCalls)
    /\ UNCHANGED <<questions, currentQuestionIndex, showQuestionForm, saveStatus,
                   showDeleteConfirm, showQuestionTypes, draggedIndex, dragOverIndex,
                   isDragging, dragDirection, x, y, sessions>>

ToggleQuestionTypes ==
    /\ SaveIdle
    /\ showQuestionTypes' = ~showQuestionTypes
    /\ PageRender
    /\ ev' = PageEvent("toggleTypes", NULL, NoCalls)
    /\ UNCHANGED <<questions, now, currentQuestionIndex, showQuestionForm, saveStatus,
                   showDeleteConfirm, draggedIndex, dragOverIndex>>

addQuestion ==
    /\ showQuestionTypes
    /\ Len(questions) < MaxQuestions
    /\ questions' = Append(questions, now)
    /\ saveStatus' = "unsaved"
    /\ currentQuestionIndex' = Len(questions)
    /\ showQuestionForm' = TRUE
    /\ showQuestionTypes' = FALSE
    /\ PageRender
    /\ ev' = PageEvent("addQuestion", now, NoCalls)
    /\ UNCHANGED <<now, showDeleteConfirm, draggedIndex, dragOverIndex>>
    /\ SaveRearmed

\* mousedown outside the floating add container (lines 102-111)
handleClickOutside ==
    /\ SaveIdle
    /\ showQuestionTypes
    /\ showQuestionTypes' = FALSE
    /\ PageRender
    /\ ev' = PageEvent("clickOutside", NULL, NoCalls)
    /\ UNCHANGED <<questions, now, currentQuestionIndex, showQuestionForm, saveStatus,
                   showDeleteConfirm, draggedIndex, dragOverIndex>>

\* the form's back button (line 692)
FormBack ==
    /\ SaveIdle
    /\ FormRendered /\ ~ModalOpen
    /\ showQuestionForm' = FALSE
    /\ PageRender
    /\ ev' = PageEvent("formBack", NULL, NoCalls)
    /\ UNCHANGED <<questions, now, currentQuestionIndex, saveStatus, showDeleteConfirm,
                   showQuestionTypes, draggedIndex, dragOverIndex>>

\* the form's Previous button (lines 713-723), disabled at index 0
FormPrevious ==
    /\ SaveIdle
    /\ FormRendered /\ ~ModalOpen
    /\ Len(questions) > 1
    /\ currentQuestionIndex > 0
    /\ currentQuestionIndex' = currentQuestionIndex - 1
    /\ PageRender
    /\ ev' = PageEvent("formPrevious", NULL, NoCalls)
    /\ UNCHANGED <<questions, now, showQuestionForm, saveStatus, showDeleteConfirm,
                   showQuestionTypes, draggedIndex, dragOverIndex>>

\* the form's Next / Done button (lines 724-737)
FormNext ==
    /\ SaveIdle
    /\ FormRendered /\ ~ModalOpen
    /\ Len(questions) > 1
    /\ IF currentQuestionIndex < Len(questions) - 1
       THEN /\ currentQuestionIndex' = currentQuestionIndex + 1
            /\ UNCHANGED showQuestionForm
       ELSE /\ showQuestionForm' = FALSE
            /\ UNCHANGED currentQuestionIndex
    /\ PageRender
    /\ ev' = PageEvent("formNext", NULL, NoCalls)
    /\ UNCHANGED <<questions, now, saveStatus, showDeleteConfirm, showQuestionTypes,
                   draggedIndex, dragOverIndex>>

\* the form's trash button: onClick={() => deleteQuestion(localQuestion.id)}
FormDelete ==
    /\ FormRendered /\ ~ModalOpen
    /\ LET id == At(questions, currentQuestionIndex)
       IN  /\ questions' = deleteQuestion(questions, id)
           /\ ev' = PageEvent("formDelete", id, <<Call("delete", id, NULL)>>)
    /\ saveStatus' = "unsaved"
    /\ showDeleteConfirm' = NULL
    /\ PageRender
    /\ UNCHANGED <<now, currentQuestionIndex, showQuestionForm, showQuestionTypes,
                   draggedIndex, dragOverIndex>>
    /\ SaveRearmed

\* the modal's Cancel button: onClick={() => setShowDeleteConfirm(null)}
ModalCancel ==
    /\ SaveIdle
    /\ ModalOpen
    /\ showDeleteConfirm' = NULL
    /\ PageRender
    /\ ev' = PageEvent("modalCancel", showDeleteConfirm, NoCalls)
    /\ UNCHANGED <<questions, now, currentQuestionIndex, showQuestionForm, saveStatus,
                   showQuestionTypes, draggedIndex, dragOverIndex>>

\* the modal's Delete button: onClick={() => deleteQuestion(showDeleteConfirm)}
ModalDelete ==
    /\ ModalOpen
    /\ questions' = deleteQuestion(questions, showDeleteConfirm)
    /\ saveStatus' = "unsaved"
    /\ showDeleteConfirm' = NULL
    /\ PageRender
    /\ ev' = PageEvent("modalDelete", showDeleteConfirm,
                       <<Call("delete", showDeleteConfirm, NULL)>>)
    /\ UNCHANGED <<now, currentQuestionIndex, showQuestionForm, showQuestionTypes,
                   draggedIndex, dragOverIndex>>
    /\ SaveRearmed

\* ------------------------------------------------ StudentQuestionCard handlers
\* after a handler that left QuizBuilder's state alone only the card renders
\* again: the handlers of a mounted instance close over its new local state
Refreshed(s) ==
    IF s.open /\ s.mounted THEN [s EXCEPT !.dir = dragDirection'[s.index]] ELSE s

\* onDragStart of the card at index i, for the gesture of pointer p
handleDragStart(p, i) ==
    /\ SaveIdle
    /\ ~sessions[p].open
    /\ CardRendered(i) /\ ~ModalOpen
    /\ draggedIndex' = i
    /\ IF draggedIndex # i
       THEN \* QuizBuilder renders: the pressed instance is replaced at once
            /\ Remount
            /\ sessions' = [q \in DOMAIN sessions |->
                   IF q = p THEN Closure(i, FALSE) ELSE Detached(sessions[q])]
       ELSE /\ isDragging' = [isDragging EXCEPT ![i] = TRUE]
            /\ UNCHANGED <<dragDirection, x, y>>
            /\ sessions' = [sessions EXCEPT ![p] = Closure(i, TRUE)]
    /\ ev' = Event("dragStart", i, At(questions, i), dragDirection[i], dragOverIndex,
                   draggedIndex = i, 0, 0, NoCalls)
    /\ UNCHANGED <<questions, now, currentQuestionIndex, showQuestionForm, saveStatus,
                   showDeleteConfirm, showQuestionTypes, dragOverIndex>>

\* the index handleDrag computes for a vertically locked card (lines 385-388)
CandidateIndex(s, currentY) == ClampIndex(Len(s.qs), RoundIndex(s.index, currentY))

\* a mutant of DraggedList: the list follows the card while it is dragged
DraggedListLive(s, over) ==
    IF s.dir = "vertical" /\ over # s.index
    THEN reorderQuestions(questions, s.index, over)
    ELSE questions

\* quiz.questions after handleDrag, which calls neither updateQuiz nor any of
\* the functions that call it
DraggedList(s, over) == questions

\* the body of handleDrag, run with the closure s; d is info.delta and
\* <<ox, oy>> is info.offset, which the library has applied to the motion
\* values, within the dragConstraints of line 466, before it calls onDrag.
\* The handler has no condition on isDragging or on a press-start having run.
handleDragBy(op, s, d, ox, oy) ==
    LET i == s.index
        lock == IF s.dir = "null" THEN LockDirection(d[1], d[2]) ELSE "null"
        currentX == Constrain(ox, -ConstraintX, ConstraintX)
        currentY == Constrain(oy, -ConstraintY, ConstraintY)
        clampedIndex == CandidateIndex(s, currentY)
        setOver == s.dir = "vertical" /\ clampedIndex # s.over
    IN  /\ questions' = DraggedList(s, clampedIndex)
        /\ dragOverIndex' = IF setOver THEN clampedIndex ELSE dragOverIndex
        /\ IF dragOverIndex' # dragOverIndex
           THEN /\ Remount
                /\ sessions' = [q \in DOMAIN sessions |-> Detached(sessions[q])]
           ELSE /\ IF s.mounted
                   THEN /\ dragDirection' =
                               IF lock # "null" THEN [dragDirection EXCEPT ![i] = lock]
                               ELSE dragDirection
                        /\ x' = IF s.dir = "horizontal" THEN [x EXCEPT ![i] = currentX] ELSE x
                        /\ y' = IF s.dir = "vertical" THEN [y EXCEPT ![i] = currentY] ELSE y
                   ELSE UNCHANGED <<dragDirection, x, y>>
                /\ UNCHANGED isDragging
                /\ sessions' = [q \in DOMAIN sessions |-> Refreshed(sessions[q])]
        /\ SaveIdle
        /\ ev' = Event(op, i, s.id, s.dir, s.over, s.mounted, 0, 0, NoCalls)
                     @@ [delta |-> d, offset |-> <<ox, oy>>]
        /\ UNCHANGED <<now, currentQuestionIndex, showQuestionForm, saveStatus,
                       showDeleteConfirm, showQuestionTypes, draggedIndex>>

\* onDrag of the instance the gesture of pointer p began on
handleDrag(p, d, ox, oy) ==
    /\ sessions[p].open
    /\ handleDragBy("drag", sessions[p], d, ox, oy)

\* a mutant of ReleasedOverIndex: the release forgets setDragOverIndex(null)
KeptOverIndex == dragOverIndex

\* the value handleDragEnd gives dragOverIndex (line 424)
ReleasedOverIndex == NULL

\* onDragEnd of the instance the gesture of pointer p began on
handleDragEnd(p, deltaX, velocityX) ==
    LET s == sessions[p]
        i == s.index
        edit == HorizontalLock(s.dir) /\ SwipeRight(deltaX, velocityX)
        delete == HorizontalLock(s.dir) /\ ElseIf(SwipeRight(deltaX, velocityX),
                                                   SwipeLeft(deltaX, velocityX))
        reorder == s.dir = "vertical" /\ s.over # NULL /\ s.over # i
        calls == (IF edit THEN <<Call("edit", i, s.id)>> ELSE NoCalls)
                 \o (IF delete THEN <<Call("requestDeleteConfirmation", s.id, NULL)>>
                     ELSE NoCalls)
                 \o (IF reorder THEN <<Call("reorder", i, s.over)>> ELSE NoCalls)
    IN  /\ s.open
        /\ currentQuestionIndex' = IF edit THEN i ELSE currentQuestionIndex
        /\ showQuestionForm' = IF edit THEN TRUE ELSE showQuestionForm
        /\ showDeleteConfirm' = IF delete THEN s.id ELSE showDeleteConfirm
        /\ questions' = IF reorder THEN reorderQuestions(s.qs, i, s.over) ELSE questions
        /\ saveStatus' = IF reorder THEN "unsaved" ELSE saveStatus
        /\ dragOverIndex' = ReleasedOverIndex
        /\ draggedIndex' = NULL
        /\ IF \/ reorder
              \/ <<currentQuestionIndex', showQuestionForm', showDeleteConfirm'>>
                     # <<currentQuestionIndex, showQuestionForm, showDeleteConfirm>>
              \/ <<dragOverIndex, draggedIndex>> # <<NULL, NULL>>
           THEN /\ Remount
                /\ sessions' = [q \in DOMAIN sessions |->
                       IF q = p THEN Idle ELSE Detached(sessions[q])]
           ELSE /\ IF s.mounted
                   THEN /\ x' = [x EXCEPT ![i] = 0]
                        /\ y' = [y EXCEPT ![i] = 0]
                        /\ dragDirection' = [dragDirection EXCEPT ![i] = "null"]
                        /\ isDragging' = [isDragging EXCEPT ![i] = FALSE]
                   ELSE UNCHANGED <<x, y, dragDirection, isDragging>>
                /\ sessions' = [q \in DOMAIN sessions |->
                       IF q = p THEN Idle ELSE Refreshed(sessions[q])]
        /\ IF reorder THEN SaveRearmed ELSE SaveIdle
        /\ ev' = Event("dragEnd", i, s.id, s.dir, s.over, s.mounted, deltaX, velocityX, calls)
        /\ UNCHANGED <<now, showQuestionTypes>>

\* the library stops calling the handlers of an instance that is gone
Lose(p) ==
    /\ SaveIdle
    /\ sessions[p].open /\ ~sessions[p].mounted
    /\ sessions' = [sessions EXCEPT ![p] = Idle]
    /\ ev' = PageEvent("lost", sessions[p].id, NoCalls)
    /\ UNCHANGED <<questions, now, currentQuestionIndex, showQuestionForm, saveStatus,
                   showDeleteConfirm, showQuestionTypes, draggedIndex, dragOverIndex,
                   isDragging, dragDirection, x, y>>

DragStart == \E p \in Pointers, i \in CardIdx : handleDragStart(p, i)
Drag == \E p \in Pointers, m \in Samples : handleDrag(p, <<m[1], m[2]>>, m[3], m[4])
DragEnd == \E p \in Pointers, r \in Releases : handleDragEnd(p, r[1], r[2])
Lost == \E p \in Pointers : Lose(p)

Next ==
    \/ Tick
    \/ ToggleQuestionTypes
    \/ handleClickOutside
    \/ addQuestion
    \/ FormBack
    \/ FormPrevious
    \/ FormNext
    \/ FormDelete
    \/ ModalCancel
    \/ ModalDelete
    \/ DragStart
    \/ Drag
    \/ DragEnd
    \/ Lost

Spec == Init /\ [][Next]_vars

\* ------------------------------------------------------------- two pointers
\* the page after its mount effect (lines 89-99) loaded a saved quiz, on a
\* touch screen: two fingers can each hold a gesture, and the only events are
\* their press-starts, moves and releases
InitTouch ==
    /\ questions \in {[k \in 1..n |-> k] : n \in 1..MaxQuestions}
    /\ now = MaxClock
    /\ currentQuestionIndex = 0
    /\ showQuestionForm = FALSE
    /\ saveStatus = "saved"
    /\ showDeleteConfirm = NULL
    /\ showQuestionTypes = FALSE
    /\ draggedIndex = NULL
    /\ dragOverIndex = NULL
    /\ isDragging = FreshBool
    /\ dragDirection = FreshDirection
    /\ x = FreshMotion
    /\ y = FreshMotion
    /\ sessions = [p \in TouchPointers |-> Idle]
    /\ localStorage = NoItem
    /\ timers = [save |-> [pending |-> TRUE, status |-> saveStatus, questions |-> questions],
                 saved |-> 0]
    /\ ev = PageEvent("mount", NULL, NoCalls)

\* the samples and releases of the two fingers: a lock to each direction, a
\* move to the next card's slot, and a release of each outcome
TouchSamples == {<<20, 0, 20, 0>>, <<0, 20, 0, 20>>, <<0, 10, 0, 70>>}
TouchReleases == {<<0, 0>>, <<81, 0>>, <<-81, 0>>}

TouchStart == \E p \in TouchPointers, i \in CardIdx : handleDragStart(p, i)
TouchMove == \E p \in TouchPointers, m \in TouchSamples : handleDrag(p, <<m[1], m[2]>>, m[3], m[4])
TouchEnd == \E p \in TouchPointers, r \in TouchReleases : handleDragEnd(p, r[1], r[2])
TouchLost == \E p \in TouchPointers : Lose(p)

NextTouch ==
    \/ TouchStart
    \/ TouchMove
    \/ TouchEnd
    \/ TouchLost

SpecTouch == InitTouch /\ [][NextTouch]_vars

\* ------------------------------------------------------- out-of-order samples
\* the page as in Spec, with a host that also delivers a movement sample to the
\* onDrag of a rendered card that no press-start has opened a gesture on
StraySample(i, d, ox, oy) ==
    /\ CardRendered(i) /\ ~ModalOpen
    /\ ~isDragging[i]
    /\ \A p \in DOMAIN sessions : ~(sessions[p].open /\ sessions[p].index = i)
    /\ handleDragBy("straySample", Closure(i, TRUE), d, ox, oy)

Stray == \E i \in CardIdx, m \in TouchSamples : StraySample(i, <<m[1], m[2]>>, m[3], m[4])

NextStray ==
    \/ Next
    \/ Stray

SpecStray == Init /\ [][NextStray]_vars

\* ------------------------------------------------ reorderQuestions on its own
\* reorderQuestions applied to the current list with the arguments the event
\* records; the list it started from is kept in the event
ReorderEvent(fromIndex, toIndex, before) ==
    [op |-> "reorderQuestions", fromIndex |-> fromIndex, toIndex |-> toIndex,
     before |-> before]

InitReorder ==
    /\ questions \in UNION {[1..n -> 1..MaxId] : n \in 0..MaxLen}
    /\ now = 1
    /\ currentQuestionIndex = 0
    /\ showQuestionForm = FALSE
    /\ saveStatus = "saved"
    /\ showDeleteConfirm = NULL
    /\ showQuestionTypes = FALSE
    /\ draggedIndex = NULL
    /\ dragOverIndex = NULL
    /\ isDragging = FreshBool
    /\ dragDirection = FreshDirection
    /\ x = FreshMotion
    /\ y = FreshMotion
    /\ sessions = [p \in Pointers |-> Idle]
    /\ localStorage = NoItem
    /\ timers = [save |-> [pending |-> TRUE, status |-> saveStatus, questions |-> questions],
                 saved |-> 0]
    /\ ev = PageEvent("mount", NULL, NoCalls)

ReorderCall ==
    /\ Len(questions) <= MaxLen
    /\ \E fromIndex \in ReorderIdx, toIndex \in ReorderIdx :
           /\ questions' = reorderQuestions(questions, fromIndex, toIndex)
           /\ ev' = ReorderEvent(fromIndex, toIndex, questions)
    /\ saveStatus' = "unsaved"
    /\ UNCHANGED <<now, currentQuestionIndex, showQuestionForm, showDeleteConfirm,
                   showQuestionTypes, draggedIndex, dragOverIndex, isDragging,
                   dragDirection, x, y, sessions>>
    /\ SaveRearmed

NextReorder == ReorderCall

SpecReorder == InitReorder /\ [][NextReorder]_vars

\* -------------------------------------------------- deleteQuestion on its own
\* deleteQuestion applied to the current list, again and again, with every id
\* a question can carry; the event keeps the list the call started from and
\* the id of the call before it
DeleteEvent(questionId, before, prevId) ==
    [op |-> "deleteQuestion", id |-> questionId, before |-> before, prevId |-> prevId]

DeleteCall ==
    /\ \E questionId \in 1..MaxId :
           /\ questions' = deleteQuestion(questions, questionId)
           /\ ev' = DeleteEvent(questionId, questions,
                                IF ev.op = "deleteQuestion" THEN ev.id ELSE NULL)
    /\ saveStatus' = "unsaved"
    /\ showDeleteConfirm' = NULL
    /\ UNCHANGED <<now, currentQuestionIndex, showQuestionForm, showQuestionTypes,
                   draggedIndex, dragOverIndex, isDragging, dragDirection, x, y,
                   sessions>>
    /\ SaveRearmed

NextDelete == DeleteCall

SpecDelete == InitReorder /\ [][NextDelete]_vars

\* ----------------------------------------------------- the auto-save timers
\* the 1000 ms timeout of the effect's last run fires (lines 77-83) and tests
\* the saveStatus that run closed over; it writes the quiz that run closed over.
\* A 500 ms timeout set before this timeout was set has fired before it.
SaveTimerFires ==
    /\ timers.save.pending
    /\ timers.saved = 0
    /\ IF timers.save.status = "unsaved"
       THEN /\ saveStatus' = "saving"
            /\ localStorage' = Item(Stringify(timers.save.questions))
            /\ timers' = [save |-> [pending |-> TRUE, status |-> "saving",
                                    questions |-> questions],
                          saved |-> timers.saved + 1]
            /\ PageRender
       ELSE /\ timers' = [timers EXCEPT !.save.pending = FALSE]
            /\ UNCHANGED <<saveStatus, localStorage, isDragging, dragDirection, x, y,
                           sessions>>
    /\ ev' = PageEvent("saveTimer", NULL, NoCalls)
    /\ UNCHANGED <<questions, now, currentQuestionIndex, showQuestionForm,
                   showDeleteConfirm, showQuestionTypes, draggedIndex, dragOverIndex>>

\* a 500 ms timeout fires: () => setSaveStatus("saved") (line 81)
SavedTimerFires ==
    /\ timers.saved > 0
    /\ saveStatus' = "saved"
    /\ IF saveStatus # "saved"
       THEN /\ timers' = [save |-> [pending |-> TRUE, status |-> "saved",
                                    questions |-> questions],
                          saved |-> timers.saved - 1]
            /\ PageRender
       ELSE /\ timers' = [timers EXCEPT !.saved = @ - 1]
            /\ UNCHANGED <<isDragging, dragDirection, x, y, sessions>>
    /\ ev' = PageEvent("savedTimer", NULL, NoCalls)
    /\ UNCHANGED <<questions, now, currentQuestionIndex, showQuestionForm,
                   showDeleteConfirm, showQuestionTypes, draggedIndex, dragOverIndex,
                   localStorage>>

\* the page without gestures: the add menu, the form's buttons and the two
\* timeouts of the auto-save effect
NextSave ==
    \/ Tick
    \/ ToggleQuestionTypes
    \/ handleClickOutside
    \/ addQuestion
    \/ FormBack
    \/ FormPrevious
    \/ FormNext
    \/ FormDelete
    \/ SaveTimerFires
    \/ SavedTimerFires

SpecSave == Init /\ [][NextSave]_vars

\* ------------------------------------------------------------------ claims
\* the number of calls of fn the handler of event e made
CountCalls(e, fn) == Cardinality({k \in 1..Len(e.calls) : e.calls[k].fn = fn})
IsRelease(e) == e.op = "dragEnd"
\* a release within the thresholds the specification names (60 and 300)
QuietRelease(e) == IsRelease(e) /\ Abs(e.offsetX) < 60 /\ Abs(e.velocityX) < 300

\* C1 (as claimed): a question leaves quiz.questions only in a step that answers
\* Delete in the confirmation modal that was opened for that question's id.
C1_RemovedOnlyAfterConfirm ==
    [][\A id \in Range(questions) :
           id \notin Range(questions')
               => (showDeleteConfirm = id /\ ev'.op = "modalDelete")]_vars

\* C2 (as claimed): a release with |offsetX| < 60 and |velocityX| < 300 calls no
\* edit, no delete confirmation and no reorder, whatever the lock.
C2_QuietReleaseDispatchesNothing == QuietRelease(ev) => ev.calls = NoCalls

\* C2 (amended): a release with |offsetX| < 60 and |velocityX| < 300 calls no edit
\* and no delete confirmation, whatever the lock; it calls reorder only for a
\* vertically locked session whose candidate index is set and is not its own.
C2_QuietReleaseNoSwipeAction ==
    QuietRelease(ev) =>
        /\ CountCalls(ev, "edit") = 0
        /\ CountCalls(ev, "requestDeleteConfirmation") = 0
        /\ CountCalls(ev, "reorder") > 0
               => (ev.dir = "vertical" /\ ev.over # NULL /\ ev.over # ev.index)

\* C2 witness: a horizontally locked card released at offsetX = -40 with no call
C2_Witness ==
    /\ QuietRelease(ev) /\ ev.dir = "horizontal" /\ ev.mounted
    /\ ev.offsetX = -40 /\ ev.calls = NoCalls

\* C3 (as claimed): once a card's dragDirection is not null, the press-start and
\* movement handlers of a gesture leave it as it is (only a release resets it).
C3_LockKeptUntilRelease ==
    [][ev'.op \in {"dragStart", "drag"}
           => \A i \in CardIdx :
                  dragDirection[i] # "null" => dragDirection'[i] = dragDirection[i]]_vars

Count(qs, id) == Cardinality({k \in 1..Len(qs) : qs[k] = id})
InRange(e) ==
    /\ e.op = "reorderQuestions"
    /\ e.fromIndex \in 0..(Len(e.before) - 1)
    /\ e.toIndex \in 0..(Len(e.before) - 1)
StrictlyBetween(k, a, b) == (a < k /\ k < b) \/ (b < k /\ k < a)

\* C5 (as claimed): for in-range indices reorderQuestions keeps the multiset of
\* ids, puts the question of fromIndex at toIndex, shifts the questions strictly
\* between the two indices by one position and keeps every other question
\* where it was.
C5_OnlyStrictlyBetweenShift ==
    InRange(ev) =>
        LET f == ev.fromIndex
            t == ev.toIndex
            before == ev.before
        IN  /\ Len(questions) = Len(before)
            /\ \A id \in Range(before) \cup Range(questions) :
                   Count(questions, id) = Count(before, id)
            /\ At(questions, t) = At(before, f)
            /\ \A k \in 0..(Len(before) - 1) :
                   IF StrictlyBetween(k, f, t)
                   THEN At(questions, IF f < t THEN k - 1 ELSE k + 1) = At(before, k)
                   ELSE k # f => At(questions, k) = At(before, k)

\* C5 (amended): for in-range indices reorderQuestions keeps the length and the
\* multiset of ids, puts the question of fromIndex at toIndex, moves every
\* question after fromIndex up to and including toIndex (or from toIndex up to
\* before fromIndex) by one position towards fromIndex, and keeps every
\* question outside the two indices where it was.
C5_MoveShiftsUpToTarget ==
    InRange(ev) =>
        LET f == ev.fromIndex
            t == ev.toIndex
            before == ev.before
        IN  /\ Len(questions) = Len(before)
            /\ \A id \in Range(before) \cup Range(questions) :
                   Count(questions, id) = Count(before, id)
            /\ At(questions, t) = At(before, f)
            /\ \A k \in 0..(Len(before) - 1) :
                   /\ (f < k /\ k <= t) => At(questions, k - 1) = At(before, k)
                   /\ (t <= k /\ k < f) => At(questions, k + 1) = At(before, k)
                   /\ (k < Min(f, t) \/ k > Max(f, t)) => At(questions, k) = At(before, k)

\* C5 witness: the first of three different questions moved to the end
C5_Witness ==
    /\ InRange(ev) /\ ev.fromIndex = 0 /\ ev.toIndex = 2
    /\ ev.before = <<1, 2, 3>>
    /\ questions = <<2, 3, 1>>

\* C6 (as claimed): dragOverIndex is null or an index of quiz.questions.
C6_CandidateInRange ==
    dragOverIndex = NULL \/ (0 <= dragOverIndex /\ dragOverIndex < Len(questions))

\* C7 (as claimed): a card's horizontal offset, and the offset a horizontally
\* locked release decides on, lie within -120..120.
C7_OffsetWithinMaxOffset ==
    /\ \A i \in CardIdx : Abs(x[i]) <= 120
    /\ (IsRelease(ev) /\ ev.dir = "horizontal") => Abs(ev.offsetX) <= 120

\* C8 (as claimed): a horizontally locked release calls edit exactly once if
\* offsetX > 60 or velocityX > 300, and not otherwise.
C8_EditPastCommitOffset60 ==
    (IsRelease(ev) /\ ev.dir = "horizontal")
        => CountCalls(ev, "edit") = IF ev.offsetX > 60 \/ ev.velocityX > 300 THEN 1 ELSE 0

\* C8 (amended): a horizontally locked release calls edit exactly once, for its
\* own card, if offsetX > 80 or velocityX > 300, and not otherwise (so not at
\* offsetX = 80 with velocityX = 50); the card's offset is 0 after the release.
C8_EditPastThreshold80 ==
    (IsRelease(ev) /\ ev.dir = "horizontal")
        => /\ CountCalls(ev, "edit") = IF ev.offsetX > 80 \/ ev.velocityX > 300 THEN 1 ELSE 0
           /\ CountCalls(ev, "edit") = 1 => ev.calls = <<Call("edit", ev.index, ev.id)>>
           /\ x[ev.index] = 0

\* C8 witness: a horizontally locked card released at offsetX = 81 opened the form
C8_Witness ==
    /\ IsRelease(ev) /\ ev.dir = "horizontal" /\ ev.mounted
    /\ ev.offsetX = 81 /\ ev.velocityX = 0
    /\ CountCalls(ev, "edit") = 1
    /\ showQuestionForm /\ currentQuestionIndex = ev.index

C10_ReorderOnVerticalRelease ==
    [][(ev'.op = "dragEnd" /\ ev'.dir = "vertical")
           => IF dragOverIndex # NULL /\ dragOverIndex # ev'.index
              THEN ev'.calls = <<Call("reorder", ev'.index, dragOverIndex)>>
              ELSE ev'.calls = NoCalls /\ questions' = questions]_vars

\* C11 (as claimed): a release of a gesture whose card left the list, or whose
\* list changed since its handlers were created, calls no edit, no delete
\* confirmation and no reorder.
C11_StaleReleaseDispatchesNothing ==
    [][ev'.op = "dragEnd"
           => \A p \in DOMAIN sessions :
                  (sessions[p].open /\ ~sessions'[p].open
                       /\ (sessions[p].id \notin Range(questions)
                               \/ sessions[p].qs # questions))
                      => ev'.calls = NoCalls]_vars

\* C12: deleteQuestion called with an id that no question of the list carries
\* leaves the list as it is, and a second call with the id of the call before
\* it leaves the list as the first call left it.
C12_DeleteIdempotent ==
    ev.op = "deleteQuestion"
        => /\ ev.id \notin Range(ev.before) => questions = ev.before
           /\ ev.prevId = ev.id => questions = ev.before

\* C12 witness: the second of two calls in a row with the id 1, which finds
\* the list <<2>> and leaves it
C12_Witness ==
    /\ ev.op = "deleteQuestion" /\ ev.id = 1 /\ ev.prevId = 1
    /\ ev.before = <<2>> /\ questions = <<2>>

\* C13 (as claimed): the ids of the questions of quiz.questions are pairwise
\* distinct.
C13_IdsDistinct ==
    \A a, b \in 1..Len(questions) : a # b => questions[a] # questions[b]

\* C14 (as claimed): for a fromIndex or toIndex outside 0..length-1,
\* reorderQuestions leaves the list with the same length and the same multiset
\* of questions and inserts no undefined entry.
C14_OutOfRangeLeavesList ==
    (ev.op = "reorderQuestions" /\ ~InRange(ev))
        => /\ Len(questions) = Len(ev.before)
           /\ \A id \in Range(ev.before) \cup Range(questions) :
                  Count(questions, id) = Count(ev.before, id)
           /\ UNDEFINED \in Range(questions) => UNDEFINED \in Range(ev.before)

\* C15 (as claimed): a movement sample delivered to a card that has no gesture
\* open (no press-start before it, or its release already ran) changes no
\* gesture state and not the list.
C15_SampleWithoutSessionIgnored ==
    [][ev'.op = "straySample"
           => UNCHANGED <<dragDirection, dragOverIndex, draggedIndex, isDragging,
                          x, y, questions>>]_vars

\* a movement sample handled for a gesture on a mounted card whose direction
\* was undecided when the sample arrived
UndecidedSample(e) == e.op = "drag" /\ e.mounted /\ e.dir = "null"
\* axis a is at least, or more than, 1.5 times axis b
AtLeastOneAndAHalf(a, b) == 2 * a >= 3 * b
MoreThanOneAndAHalf(a, b) == 2 * a > 3 * b

\* C16 (as claimed): with dx and dy the offset from the press-start, an
\* undecided gesture locks at a sample with max(|dx|,|dy|) >= 10 and one axis
\* at least 1.5 times the other, to the larger axis, and stays undecided while
\* max(|dx|,|dy|) < 10.
C16_LockOnOffsetFromPress ==
    UndecidedSample(ev) =>
        LET ax == Abs(ev.offset[1])
            ay == Abs(ev.offset[2])
        IN  /\ (Max(ax, ay) >= 10 /\ AtLeastOneAndAHalf(ax, ay))
                   => dragDirection[ev.index] = "horizontal"
            /\ (Max(ax, ay) >= 10 /\ AtLeastOneAndAHalf(ay, ax))
                   => dragDirection[ev.index] = "vertical"
            /\ Max(ax, ay) < 10 => dragDirection[ev.index] = "null"

\* C17 (as claimed): an undecided gesture whose sample has |dx| and |dy| both
\* past 10 and neither at least 1.5 times the other locks to vertical.
C17_TieLocksVertical ==
    UndecidedSample(ev) =>
        LET ax == Abs(ev.offset[1])
            ay == Abs(ev.offset[2])
        IN  (ax > 10 /\ ay > 10 /\ ~AtLeastOneAndAHalf(ax, ay) /\ ~AtLeastOneAndAHalf(ay, ax))
                => dragDirection[ev.index] = "vertical"

\* C17 (amended): an undecided gesture stays undecided at a sample whose own
\* movement (info.delta) has |dx| or |dy| above 10 while neither is more than
\* 1.5 times the other, as for |dx| = |dy| = 20.
C17_TieStaysUndecided ==
    UndecidedSample(ev) =>
        LET ax == Abs(ev.delta[1])
            ay == Abs(ev.delta[2])
        IN  ((ax > 10 \/ ay > 10) /\ ~MoreThanOneAndAHalf(ax, ay) /\ ~MoreThanOneAndAHalf(ay, ax))
                => dragDirection[ev.index] = "null"

\* C17 witness: the sample with delta (20, 20) on an undecided mounted card
C17_Witness ==
    /\ UndecidedSample(ev) /\ ev.delta = <<20, 20>>
    /\ dragDirection[ev.index] = "null" /\ isDragging[ev.index]

\* C18: a release of a gesture whose direction is still undecided calls no
\* edit, no delete confirmation and no reorder, whatever its offset and
\* velocity, and leaves the list, the form and the modal as they are.
C18_UndecidedReleaseDispatchesNothing ==
    [][(ev'.op = "dragEnd" /\ ev'.dir = "null")
           => /\ ev'.calls = NoCalls
              /\ UNCHANGED <<questions, showDeleteConfirm, showQuestionForm,
                             currentQuestionIndex>>]_vars

\* C18 witness: an undecided gesture on a mounted card released at offsetX = 200
C18_Witness ==
    /\ IsRelease(ev) /\ ev.dir = "null" /\ ev.mounted
    /\ ev.offsetX = 200 /\ ev.calls = NoCalls
    /\ ~showQuestionForm /\ showDeleteConfirm = NULL

\* C19: after a release, whether it called an action or not, every card's
\* offsets are 0, its dragDirection is null and its isDragging is false, and
\* dragOverIndex and draggedIndex are null.
C19_ReleaseResetsGestureState ==
    IsRelease(ev) =>
        /\ dragOverIndex = NULL /\ draggedIndex = NULL
        /\ \A i \in CardIdx :
               /\ x[i] = 0 /\ y[i] = 0
               /\ dragDirection[i] = "null"
               /\ ~isDragging[i]

\* C19 witness: a horizontally locked card that was being dragged is released
\* short of every threshold and is back at rest
C19_Witness ==
    /\ IsRelease(ev) /\ ev.dir = "horizontal" /\ ev.mounted /\ ev.active = {ev.index}
    /\ ev.offsetX = 70 /\ ev.calls = NoCalls
    /\ x[ev.index] = 0 /\ ~isDragging[ev.index] /\ dragDirection[ev.index] = "null"
    /\ draggedIndex = NULL

\* C20 (as claimed): while a delete confirmation is unresolved, the card it was
\* requested for is held at an offset that is not 0.
C20_HeldAtSwipedOffset ==
    showDeleteConfirm # NULL
        => \E i \in CardIdx :
               /\ i < Len(questions) /\ At(questions, i) = showDeleteConfirm
               /\ x[i] # 0

\* C20 (amended): the release that requests a delete confirmation leaves its
\* card at offset 0 and opens the modal for the card's id; until the modal is
\* answered with Delete or Cancel, showDeleteConfirm keeps an id (its own, or
\* the id of a later release that requests a confirmation) and every card stays
\* at offset 0.
C20_PendingHeldByModal ==
    [][/\ (ev'.op = "dragEnd" /\ CountCalls(ev', "requestDeleteConfirmation") = 1)
              => showDeleteConfirm' = ev'.id /\ x'[ev'.index] = 0
       /\ (showDeleteConfirm # NULL /\ ev'.op \notin {"modalDelete", "modalCancel"})
              => /\ \/ showDeleteConfirm' = showDeleteConfirm
                    \/ /\ ev'.op = "dragEnd"
                       /\ CountCalls(ev', "requestDeleteConfirmation") = 1
                       /\ showDeleteConfirm' = ev'.id
                 /\ \A i \in CardIdx : x'[i] = 0 /\ y'[i] = 0]_vars

\* C20 witness: the modal is open for a listed card, which is still pending
\* and at offset 0 after the add menu was toggled
C20_Witness ==
    /\ showDeleteConfirm # NULL /\ ev.op = "toggleTypes"
    /\ \E i \in CardIdx :
           /\ i < Len(questions) /\ At(questions, i) = showDeleteConfirm
           /\ x[i] = 0

\* C21: the press-start and move handlers leave quiz.questions as it is, for
\* every sample and every closure; a step changes the list only if it is
\* addQuestion, deleteQuestion (from the modal or the form's trash button) or a
\* release of a vertically locked gesture that calls reorder.
C21_ListChangedOnlyByDispatch ==
    [][/\ ev'.op \in {"dragStart", "drag"} => questions' = questions
       /\ questions' # questions
              => \/ ev'.op \in {"addQuestion", "formDelete", "modalDelete"}
                 \/ /\ ev'.op = "dragEnd" /\ ev'.dir = "vertical"
                    /\ ev'.calls = <<Call("reorder", ev'.index, ev'.over)>>]_vars

\* C21 witness: a vertically locked gesture on the first of two cards has
\* moved over the second card's slot (dragOverIndex = 1) and the list is still
\* in the order the gesture found it in
C21_Witness ==
    /\ ev.op = "drag" /\ ev.dir = "vertical" /\ ev.index = 0
    /\ dragOverIndex = 1 /\ Len(questions) = 2
    /\ \E p \in DOMAIN sessions : sessions[p].open /\ sessions[p].qs = questions

\* C22 (as claimed): a release that calls edit leaves the form open on the
\* swiped card (currentQuestionIndex is the position of that card in the list)
\* and leaves showDeleteConfirm and quiz.questions as they were.
C22_EditOpensFormOnSwipedCard ==
    [][(ev'.op = "dragEnd" /\ CountCalls(ev', "edit") = 1)
           => /\ showQuestionForm'
              /\ currentQuestionIndex' \in 0..(Len(questions') - 1)
              /\ At(questions', currentQuestionIndex') = ev'.id
              /\ UNCHANGED <<showDeleteConfirm, questions>>]_vars

\* C23: a release calls at most one of edit, delete confirmation and reorder;
\* a horizontally locked release whose values satisfy the edit condition
\* (offsetX > 80 or velocityX > 300) and the delete condition (offsetX < -80 or
\* velocityX < -300) calls edit alone: the form is open on the index of the
\* release and no confirmation modal is.
C23_OneDispatchEditFirst ==
    IsRelease(ev) =>
        /\ Len(ev.calls) <= 1
        /\ (/\ ev.dir = "horizontal"
            /\ (ev.offsetX > 80 \/ ev.velocityX > 300)
            /\ (ev.offsetX < -80 \/ ev.velocityX < -300))
               => /\ ev.calls = <<Call("edit", ev.index, ev.id)>>
                  /\ showQuestionForm /\ currentQuestionIndex = ev.index
                  /\ showDeleteConfirm = NULL

\* C23 witness: a horizontally locked card released at offsetX = 100 with
\* velocityX = -500 opened the form and no modal
C23_Witness ==
    /\ IsRelease(ev) /\ ev.dir = "horizontal"
    /\ ev.offsetX = 100 /\ ev.velocityX = -500
    /\ ev.calls = <<Call("edit", ev.index, ev.id)>>
    /\ showQuestionForm /\ showDeleteConfirm = NULL

\* C24 (as claimed): whenever saveStatus is "saved" and the quiz has been
\* written at least once, the quiz in localStorage is the current quiz.
C24_SavedMeansWritten ==
    (saveStatus = "saved" /\ localStorage.present)
        => localStorage.questions = Stringify(questions)

\* C25 (as claimed): exactly one of the question list (line 655) and the
\* question form (line 688) is rendered, and whenever showQuestionForm is true
\* currentQuestionIndex is an index of quiz.questions.
C25_ListOrFormRendered ==
    /\ (~showQuestionForm) # FormRendered
    /\ showQuestionForm => currentQuestionIndex \in 0..(Len(questions) - 1)
====
